---- MODULE Spec2Model ----
(***************************************************************************)
(* Model of the shaftify backend (src/backend/src/index.ts): the Spotify   *)
(* authorization flow (GET /auth/spotify, GET /auth/spotify/callback), the  *)
(* in-memory sessionStore with its periodic sweep, and the one-time         *)
(* GET /auth/exchange endpoint.                                             *)
(*                                                                          *)
(* Strings are sequences of symbols.  A symbol is either one reserved URL   *)
(* character (":", "/", "?", "&", "=", "%", " ") or an unreserved chunk    *)
(* ("a", "state", "s1", ...).  A query parameter that is missing (or the    *)
(* empty string: the handlers only test falsiness) is the empty sequence.   *)
(* Time is counted in ticks of MsPerTick milliseconds.                      *)
(***************************************************************************)
EXTENDS Integers, Sequences, FiniteSets, Bags, TLC

\* ------------------------------------------------------------------ bounds
\* Number of HTTP requests the server receives in one run.
MaxReqs == 3
\* Last tick of the modelled run.
MaxTime == 5

\* ------------------------------------------------------- program constants
\* Granularity of the clock: one tick is 2.5 minutes, so that an entry can be
\* created at the instant of a sweep or strictly between two sweeps.
MsPerTick == 150 * 1000
\* Lifetime of a session entry, in ticks.
TTL == (5 * 60 * 1000) \div MsPerTick
\* Period of the sweep timer, in ticks.
SWEEP_INTERVAL == (5 * 60 * 1000) \div MsPerTick

CLIENT_ID == <<"CLIENT_ID">>
REDIRECT_URI == <<"https", ":", "/", "/", "server", "/", "auth", "/", "spotify", "/", "callback">>
DEFAULT_TARGET == <<"exp", ":", "/", "/", "127.0.0.1", ":", "19000", "/", "--", "/">>
AUTHORIZE_URL == <<"https", ":", "/", "/", "accounts.spotify.com", "/", "authorize">>

\* ------------------------------------------------------------------ inputs
\* Values the calling application may give as redirect_uri.
RedirectUris == { <<"myapp", ":", "/", "/", "cb">>,
                  <<"%", "25">>,
                  <<"a", "?", "b", "=", "c", "&", "state", "=", "d">> }
\* The redirect_uri of the runs in which time passes.
AppUri == <<"myapp", ":", "/", "/", "cb">>
\* Authorization codes the provider may send to the callback.
AuthCodes == { <<"a1">>, <<"a2">> }
\* The values crypto.randomBytes(32).toString("hex") may produce.
SessionCodes == { <<"s1">>, <<"s2">> }

Missing == <<>>
Undefined == <<>>
Falsy(v) == v = <<>>

\* ------------------------------------------------------- querystring, URLs
Reserved == {":", "/", "?", "&", "=", "%", " "}

HexOf(ch) ==
  CASE ch = ":" -> <<"3A">>
    [] ch = "/" -> <<"2F">>
    [] ch = "?" -> <<"3F">>
    [] ch = "&" -> <<"26">>
    [] ch = "=" -> <<"3D">>
    [] ch = "%" -> <<"25">>
    [] ch = " " -> <<"20">>

\* Mutant: the value is put into the query string as it is.
escapeNothing(str) == str

\* querystring.escape: percent-encodes every reserved character.
RECURSIVE escape(_)
escape(str) ==
  IF str = <<>> THEN <<>>
  ELSE (IF Head(str) \in Reserved THEN <<"%">> \o HexOf(Head(str)) ELSE <<Head(str)>>)
       \o escape(Tail(str))

\* querystring.stringify of an object given as a sequence of <<key, value>>.
RECURSIVE stringify(_)
stringify(obj) ==
  IF obj = <<>> THEN <<>>
  ELSE escape(obj[1][1]) \o <<"=">> \o escape(obj[1][2])
       \o (IF Len(obj) > 1 THEN <<"&">> \o stringify(Tail(obj)) ELSE <<>>)

\* Percent-decoding done by whoever parses a query string (the provider for
\* the authorize URL, express for req.query).
RECURSIVE unescape(_)
unescape(str) ==
  IF str = <<>> THEN <<>>
  ELSE IF Head(str) = "%" /\ Len(str) >= 2 /\ (\E ch \in Reserved : HexOf(ch) = <<str[2]>>)
       THEN <<CHOOSE ch \in Reserved : HexOf(ch) = <<str[2]>> >>
            \o unescape(SubSeq(str, 3, Len(str)))
       ELSE <<Head(str)>> \o unescape(Tail(str))

RECURSIVE FirstIndex(_, _, _)
FirstIndex(str, sym, i) ==
  IF i > Len(str) THEN 0
  ELSE IF str[i] = sym THEN i ELSE FirstIndex(str, sym, i + 1)

\* The part of a URL after its first "?".
QueryOf(url) ==
  LET q == FirstIndex(url, "?", 1)
  IN IF q = 0 THEN <<>> ELSE SubSeq(url, q + 1, Len(url))

\* req.query[key]: the decoded value of parameter key, Missing if absent.
RECURSIVE QueryParam(_, _)
QueryParam(query, key) ==
  IF query = <<>> THEN Missing
  ELSE LET amp  == FirstIndex(query, "&", 1)
           seg  == IF amp = 0 THEN query ELSE SubSeq(query, 1, amp - 1)
           rest == IF amp = 0 THEN <<>> ELSE SubSeq(query, amp + 1, Len(query))
           eq   == FirstIndex(seg, "=", 1)
           k    == IF eq = 0 THEN seg ELSE SubSeq(seg, 1, eq - 1)
           v    == IF eq = 0 THEN <<>> ELSE SubSeq(seg, eq + 1, Len(seg))
       IN IF unescape(k) = key THEN unescape(v) ELSE QueryParam(rest, key)

\* -------------------------------------------------------------------- state
VARIABLES
  sessionStore,  \* Map: session code -> {access_token, refresh_token, user, expires_at}
  reqs,          \* the bag of requests received so far, each with its handler's
                 \* position, its locals and the responses it has sent
  issued,        \* the session codes generateSessionCode has returned so far
  appUri,        \* the redirect target the calling application uses in this run
  now,           \* Date.now(), in minutes
  nextSweep      \* the time at which the setInterval timer fires next

vars == <<sessionStore, reqs, issued, appUri, now, nextSweep>>

\* ---------------------------------------------------------------- responses
NoResponse == <<>>

\* res.redirect(location)
Redirect(location) ==
  [status |-> 302, location |-> location, error |-> "",
   access_token |-> Undefined, refresh_token |-> Undefined, user |-> Undefined]

\* res.status(status).json({success: false, error})
JsonError(status, error) ==
  [status |-> status, location |-> <<>>, error |-> error,
   access_token |-> Undefined, refresh_token |-> Undefined, user |-> Undefined]

\* Mutant: the two tokens are swapped in the response body.
JsonBundleSwapped(data) ==
  [status |-> 200, location |-> <<>>, error |-> "",
   access_token |-> data.refresh_token, refresh_token |-> data.access_token,
   user |-> data.user]

\* res.json({success: true, access_token, refresh_token, user})
JsonBundle(data) ==
  [status |-> 200, location |-> <<>>, error |-> "",
   access_token |-> data.access_token, refresh_token |-> data.refresh_token,
   user |-> data.user]

\* A request as it arrives at a route.
NewRequest(route, code, uri) ==
  [route |-> route, code |-> code, uri |-> uri, pc |-> "pending",
   access_token |-> Undefined, refresh_token |-> Undefined, resp |-> NoResponse]

\* The requests received so far.
Reqs == BagToSet(reqs)

\* The bag of requests once the server has received request r.
Received(r) == reqs (+) SetToBag({r})

\* The bag of requests once the handler of request r has moved it on to r2.
Handled(r, r2) == (reqs (-) SetToBag({r})) (+) SetToBag({r2})

\* The handler has finished: it has sent resp and its locals are gone.
Done(r, resp) ==
  [r EXCEPT !.pc = "done", !.resp = <<resp>>,
            !.access_token = Undefined, !.refresh_token = Undefined]

\* The process has started: the store is empty and the sweep timer is set.
Started ==
  /\ sessionStore = <<>>
  /\ reqs = EmptyBag
  /\ issued = {}
  /\ now = 0
  /\ nextSweep = SWEEP_INTERVAL

Init == Started /\ appUri = AppUri

InitFlow == Started /\ appUri \in RedirectUris

\* ------------------------------------------------- Phase 1: GET /auth/spotify
scope == <<"user-read-private", " ", "user-read-email", " ", "user-top-read">>

AuthorizeQuery(appRedirectUri) ==
  stringify(<< <<(<<"response_type">>), (<<"code">>)>>,
               <<(<<"client_id">>), CLIENT_ID>>,
               <<(<<"scope">>), scope>>,
               <<(<<"redirect_uri">>), REDIRECT_URI>>,
               <<(<<"state">>), appRedirectUri>> >>)

\* Mutant: the handler lacks the `if (!appRedirectUri)` guard.
AuthSpotifyResponseUnguarded(appRedirectUri) ==
  Redirect(AUTHORIZE_URL \o <<"?">> \o AuthorizeQuery(appRedirectUri))

AuthSpotifyResponse(appRedirectUri) ==
  IF Falsy(appRedirectUri)
  THEN JsonError(400, "redirect_uri parameter is required")
  ELSE Redirect(AUTHORIZE_URL \o <<"?">> \o AuthorizeQuery(appRedirectUri))

AuthSpotify(appRedirectUri) ==
  /\ BagCardinality(reqs) < MaxReqs
  /\ reqs' = Received(Done(NewRequest("auth", Missing, appRedirectUri),
                            AuthSpotifyResponse(appRedirectUri)))
  /\ UNCHANGED <<sessionStore, issued, appUri, now, nextSweep>>

\* ------------------------------------- remote provider (accounts.spotify.com)
\* What a failed provider call rejects with, error.response?.data ||
\* error.message: the error body of a non-2xx status or the message of a
\* network error.
UpstreamErrors == { "invalid_grant", "invalid_token", "ECONNRESET" }

\* What axios.post to /api/token may resolve or reject with for an
\* authorization code: a full token pair, a success status whose body lacks
\* one of the tokens, or a failure (network error, non-2xx status).
TokenResponses(code) ==
  { [ok |-> TRUE, access_token |-> <<"AT">> \o code, refresh_token |-> <<"RT">> \o code,
     error |-> ""],
    [ok |-> TRUE, access_token |-> <<"AT">> \o code, refresh_token |-> Undefined,
     error |-> ""],
    [ok |-> TRUE, access_token |-> Undefined, refresh_token |-> <<"RT">> \o code,
     error |-> ""] }
  \cup { [ok |-> FALSE, access_token |-> Undefined, refresh_token |-> Undefined,
          error |-> e] : e \in UpstreamErrors \ {"invalid_token"} }

\* What axios.get of /v1/me may resolve or reject with for a bearer token:
\* the profile of the token's owner, or a failure; a request without a token
\* is always rejected.
ProfileResponses(access_token) ==
  { [ok |-> FALSE, user |-> Undefined, error |-> e] :
      e \in UpstreamErrors \ {"invalid_grant"} }
  \cup (IF access_token = Undefined THEN {}
        ELSE { [ok |-> TRUE, user |-> <<"user">> \o Tail(access_token), error |-> ""] })

\* --------------------------------------- Phase 2: GET /auth/spotify/callback
\* Mutant: the handler always redirects to the default deep link.
TargetDefault(appRedirectUri) == DEFAULT_TARGET

\* Mutant: the handler lacks the fallback and interpolates the state as it
\* is: `${undefined}` reads "undefined".
TargetNoFallback(appRedirectUri) ==
  IF Falsy(appRedirectUri) THEN <<"undefined">> ELSE appRedirectUri

\* appRedirectUri ? `${appRedirectUri}...` : `exp://127.0.0.1:19000/--/...`
Target(appRedirectUri) ==
  IF ~Falsy(appRedirectUri) THEN appRedirectUri ELSE DEFAULT_TARGET

\* Mutant: the catch block passes the upstream error on to the caller.
CaughtErrorDetail(error) == error

\* catch (error): the upstream error is written to the console and the
\* caller is told authentication_failed.
CaughtError(error) == "authentication_failed"

\* Mutant: the catch block reuses the error of the no-code branch.
ErrorUrlNoCode(appRedirectUri, error) ==
  Target(appRedirectUri) \o <<"?", "error", "=", "no_code">>

ErrorUrl(appRedirectUri, error) ==
  Target(appRedirectUri) \o <<"?", "error", "=", error>>

SuccessUrl(appRedirectUri, sessionCode) ==
  Target(appRedirectUri) \o <<"?", "code", "=">> \o sessionCode

\* Mutant: the generator may return a value it has returned before.
generateSessionCodeRepeating == SessionCodes

\* crypto.randomBytes(32).toString("hex"): 256 random bits; the model takes
\* the generator to be collision free, so each value is returned once.
generateSessionCode == SessionCodes \ issued

\* Mutant: the bundle is one object shared by all callbacks, so storing a
\* bundle changes the bundle under every other code as well.
StoreSetShared(store, sessionCode, access_token, refresh_token, user, t) ==
  [c \in DOMAIN store \cup {sessionCode} |->
     [access_token |-> access_token, refresh_token |-> refresh_token, user |-> user,
      expires_at |-> IF c = sessionCode THEN t + TTL ELSE store[c].expires_at]]

\* sessionStore.set(sessionCode, {..., expires_at: Date.now() + 5 * 60 * 1000})
StoreSet(store, sessionCode, access_token, refresh_token, user, t) ==
  [c \in DOMAIN store \cup {sessionCode} |->
     IF c = sessionCode
     THEN [access_token |-> access_token, refresh_token |-> refresh_token,
           user |-> user, expires_at |-> t + TTL]
     ELSE store[c]]

\* The handler up to its first await: the no-code branch, or the token call.
CallbackBegin(code, appRedirectUri) ==
  /\ BagCardinality(reqs) < MaxReqs
  /\ reqs' = Received(
       IF Falsy(code)
       THEN Done(NewRequest("callback", code, appRedirectUri),
                 Redirect(ErrorUrl(appRedirectUri, "no_code")))
       ELSE [NewRequest("callback", code, appRedirectUri) EXCEPT
               !.pc = "token"])
  /\ UNCHANGED <<sessionStore, issued, appUri, now, nextSweep>>

\* A callback request sent to the server directly, with any code and state.
CallbackDirect(code, state) == CallbackBegin(code, state)

\* The provider answers the Phase 1 redirect p: it reads state from the
\* authorize URL and redirects the user agent to the server's callback URL
\* with that state and either an authorization code or none (denial).
CallbackFromProvider(p, code) ==
  /\ p \in Reqs
  /\ p.route = "auth"
  /\ p.resp # NoResponse
  /\ p.resp[1].status = 302
  /\ LET authorizeQuery == QueryOf(p.resp[1].location)
         callbackQuery  == stringify(<< <<(<<"code">>), code>>,
                                        <<(<<"state">>), QueryParam(authorizeQuery, <<"state">>)>> >>)
     IN CallbackBegin(QueryParam(callbackQuery, <<"code">>),
                      QueryParam(callbackQuery, <<"state">>))

\* The token call settles and the handler runs to its next await or its end.
CallbackTokenDone(r, tokenResponse) ==
  /\ r \in Reqs
  /\ r.route = "callback"
  /\ r.pc = "token"
  /\ reqs' = Handled(r,
       IF tokenResponse.ok
       THEN [r EXCEPT !.access_token = tokenResponse.access_token,
                      !.refresh_token = tokenResponse.refresh_token,
                      !.pc = "profile"]
       ELSE Done(r, Redirect(ErrorUrl(r.uri, CaughtError(tokenResponse.error)))))
  /\ UNCHANGED <<sessionStore, issued, appUri, now, nextSweep>>

\* The profile call settles and the handler runs to its end.
CallbackProfileDone(r, userResponse) ==
  /\ r \in Reqs
  /\ r.route = "callback"
  /\ r.pc = "profile"
  /\ IF userResponse.ok
     THEN \E sessionCode \in generateSessionCode :
            /\ issued' = issued \cup {sessionCode}
            /\ sessionStore' = StoreSet(sessionStore, sessionCode, r.access_token,
                                        r.refresh_token, userResponse.user, now)
            /\ reqs' = Handled(r, Done(r, Redirect(SuccessUrl(r.uri, sessionCode))))
     ELSE /\ reqs' = Handled(r, Done(r, Redirect(ErrorUrl(r.uri,
                                                          CaughtError(userResponse.error)))))
          /\ UNCHANGED <<sessionStore, issued>>
  /\ UNCHANGED <<appUri, now, nextSweep>>

\* ------------------------------------------------ Phase 3: GET /auth/exchange
\* Mutant: the handler lacks the `if (!sessionData)` guard, so reading a
\* property of undefined throws and express answers 500.
ExchangeResponseUnguarded(store, sessionCode) ==
  IF Falsy(sessionCode) THEN JsonError(400, "code parameter is required")
  ELSE IF sessionCode \notin DOMAIN store
       THEN JsonError(500, "Internal Server Error")
       ELSE JsonBundle(store[sessionCode])

\* Mutant: the handler lacks the `if (!sessionCode)` guard, so a request
\* without code is looked up and not found.
ExchangeResponseNoParamCheck(store, sessionCode) ==
  IF sessionCode \notin DOMAIN store
  THEN JsonError(404, "Invalid or expired session code")
  ELSE JsonBundle(store[sessionCode])

\* The response of the handler for the store it finds and the code it is given.
ExchangeResponse(store, sessionCode) ==
  IF Falsy(sessionCode) THEN JsonError(400, "code parameter is required")
  ELSE IF sessionCode \notin DOMAIN store
       THEN JsonError(404, "Invalid or expired session code")
       ELSE JsonBundle(store[sessionCode])

\* Mutant: the handler forgets sessionStore.delete.
ExchangeStoreKeep(store, sessionCode) == store

\* The store the handler leaves: sessionStore.delete(sessionCode) on success.
ExchangeStore(store, sessionCode) ==
  IF ~Falsy(sessionCode) /\ sessionCode \in DOMAIN store
  THEN [c \in DOMAIN store \ {sessionCode} |-> store[c]]
  ELSE store

\* A GET /auth/exchange request arrives and waits for the event loop.
ExchangeArrive(sessionCode) ==
  /\ BagCardinality(reqs) < MaxReqs
  /\ reqs' = Received(NewRequest("exchange", sessionCode, Missing))
  /\ UNCHANGED <<sessionStore, issued, appUri, now, nextSweep>>

\* The handler runs; it has no await, so it runs as one step.
ExchangeHandle(r) ==
  /\ r \in Reqs
  /\ r.route = "exchange"
  /\ r.pc = "pending"
  /\ reqs' = Handled(r, Done(r, ExchangeResponse(sessionStore, r.code)))
  /\ sessionStore' = ExchangeStore(sessionStore, r.code)
  /\ UNCHANGED <<issued, appUri, now, nextSweep>>

\* ------------------------------------------------------ the sweep, the clock
\* Mutant: the comparison is reversed, so the sweep deletes the live entries.
SweepDeletesLive(data, t) == data.expires_at > t

\* Mutant: the sweep allows a second lifetime before it deletes.
SweepDeletesLate(data, t) == data.expires_at + TTL < t

\* Mutant: the sweep clears the store.
SweepDeletesAll(data, t) == TRUE

\* Mutant: the sweep deletes nothing.
SweepDeletesNone(data, t) == FALSE

\* The entry is deleted by the sweep running at time t.
SweepDeletes(data, t) == data.expires_at < t

\* Mutant: the sweep clears an expired entry's fields one by one and has
\* so far cleared only user; the key is still in the store.
SweepStoreHalfDeleted(store, t) ==
  [c \in DOMAIN store |->
     IF SweepDeletes(store[c], t) THEN [store[c] EXCEPT !.user = <<>>] ELSE store[c]]

SweepStore(store, t) ==
  [c \in {k \in DOMAIN store : ~SweepDeletes(store[k], t)} |-> store[c]]

\* The setInterval callback fires.
Sweep ==
  /\ now >= nextSweep
  /\ sessionStore' = SweepStore(sessionStore, now)
  /\ nextSweep' = nextSweep + SWEEP_INTERVAL
  /\ UNCHANGED <<reqs, issued, appUri, now>>

\* A minute passes; a timer that is due fires before the next minute begins.
Tick ==
  /\ now < MaxTime
  /\ now < nextSweep
  /\ now' = now + 1
  /\ UNCHANGED <<sessionStore, reqs, issued, appUri, nextSweep>>

\* The server with its clock and sweep timer; every callback carries the
\* application's redirect target as state.
Next ==
  \/ \E uri \in {appUri, Missing} : AuthSpotify(uri)
  \/ \E code \in AuthCodes \cup {Missing} : CallbackDirect(code, appUri)
  \/ \E p \in Reqs, code \in AuthCodes \cup {Missing} : CallbackFromProvider(p, code)
  \/ \E r \in Reqs : \E tokenResponse \in TokenResponses(r.code) :
       CallbackTokenDone(r, tokenResponse)
  \/ \E r \in Reqs : \E userResponse \in ProfileResponses(r.access_token) :
       CallbackProfileDone(r, userResponse)
  \/ \E sessionCode \in SessionCodes \cup {Missing} : ExchangeArrive(sessionCode)
  \/ \E r \in Reqs : ExchangeHandle(r)
  \/ Sweep
  \/ Tick

Spec == Init /\ [][Next]_vars

\* The authorization flow alone, within one tick, for every redirect target
\* and for callbacks with and without state.
NextFlow ==
  \/ \E uri \in {appUri, Missing} : AuthSpotify(uri)
  \/ \E code \in AuthCodes \cup {Missing}, state \in {appUri, Missing} :
       CallbackDirect(code, state)
  \/ \E p \in Reqs, code \in AuthCodes \cup {Missing} : CallbackFromProvider(p, code)
  \/ \E r \in Reqs : \E tokenResponse \in TokenResponses(r.code) :
       CallbackTokenDone(r, tokenResponse)
  \/ \E r \in Reqs : \E userResponse \in ProfileResponses(r.access_token) :
       CallbackProfileDone(r, userResponse)
  \/ \E sessionCode \in SessionCodes \cup {Missing} : ExchangeArrive(sessionCode)
  \/ \E r \in Reqs : ExchangeHandle(r)

SpecFlow == InitFlow /\ [][NextFlow]_vars

\* What the event loop guarantees: a request that has arrived gets its
\* synchronous handler run, the interval timer fires when it is due, and
\* time passes.  Nothing makes the provider answer: axios.post and axios.get
\* are called without a timeout, so the steps that continue a callback after
\* an await are taken only if the provider's answer (or a network error)
\* comes.
Fairness ==
  /\ WF_vars(\E r \in Reqs : ExchangeHandle(r))
  /\ WF_vars(Sweep)
  /\ WF_vars(Tick)

SpecLive == Init /\ [][Next]_vars /\ Fairness

\* =========================================================================
\* Properties
\* =========================================================================

\* The exchange requests on sessionCode that were answered with status.
Answered(sessionCode, status) ==
  { r \in Reqs : /\ r.route = "exchange"
                 /\ r.code = sessionCode
                 /\ r.resp # NoResponse
                 /\ r.resp[1].status = status }

\* How many exchange requests on sessionCode were answered 200.
Deliveries(sessionCode) ==
  BagCardinality([r \in Answered(sessionCode, 200) |-> reqs[r]])

\* The exchange requests on sessionCode that wait for their handler.
InFlight(sessionCode) ==
  { r \in Reqs : r.route = "exchange" /\ r.code = sessionCode /\ r.pc = "pending" }

\* Request r has been answered with resp and nothing else has happened to
\* the requests.
AnswersWith(r, resp) ==
  reqs' = (reqs (-) SetToBag({r})) (+)
          SetToBag({[route |-> r.route, code |-> r.code, uri |-> r.uri, pc |-> "done",
                     access_token |-> <<>>, refresh_token |-> <<>>, resp |-> <<resp>>]})

Ok200(data) ==
  [status |-> 200, location |-> <<>>, error |-> "", access_token |-> data.access_token,
   refresh_token |-> data.refresh_token, user |-> data.user]

Err(status, error) ==
  [status |-> status, location |-> <<>>, error |-> error, access_token |-> <<>>,
   refresh_token |-> <<>>, user |-> <<>>]

RedirectTo(location) ==
  [status |-> 302, location |-> location, error |-> "", access_token |-> <<>>,
   refresh_token |-> <<>>, user |-> <<>>]

\* ---- C1 ----------------------------------------------------------------
\* A successful callback stores its bundle under a session code.
C1_Stored ==
  \A r \in Reqs : \A userResponse \in ProfileResponses(r.access_token) :
    CallbackProfileDone(r, userResponse) /\ userResponse.ok =>
      \E c \in DOMAIN sessionStore' \ DOMAIN sessionStore :
        /\ sessionStore'[c].access_token = r.access_token
        /\ sessionStore'[c].refresh_token = r.refresh_token
        /\ sessionStore'[c].user = userResponse.user

\* A stored bundle is not altered while it is in the store.
C1_Kept ==
  \A c \in DOMAIN sessionStore \cap DOMAIN sessionStore' : sessionStore'[c] = sessionStore[c]

\* An exchange that finds the bundle is the first to be answered 200 for
\* its code, returns that bundle and removes it; an exchange on a code that
\* has been delivered is answered 404.
C1_Exchange ==
  \A r \in Reqs : ExchangeHandle(r) /\ r.code # <<>> =>
    IF r.code \in DOMAIN sessionStore
    THEN /\ Deliveries(r.code) = 0
         /\ AnswersWith(r, Ok200(sessionStore[r.code]))
         /\ r.code \notin DOMAIN sessionStore'
    ELSE /\ AnswersWith(r, Err(404, "Invalid or expired session code"))
         /\ sessionStore' = sessionStore

\* No code has delivered twice, and a delivered code is not in the store.
C1_AtMostOnce ==
  \A c \in SessionCodes :
    /\ Deliveries(c) <= 1
    /\ Deliveries(c) = 1 => c \notin DOMAIN sessionStore

\* C1: single use.  The bundle a successful callback stores under session
\* code c is returned, unaltered, by the first GET /auth/exchange that finds
\* it, which removes it; every later exchange with c is answered 404, and no
\* code ever delivers a bundle twice.
C1_SingleUse ==
  /\ []C1_AtMostOnce
  /\ [][C1_Stored /\ C1_Kept /\ C1_Exchange]_vars

\* A code was delivered once and a later exchange with it was answered 404.
C1_Witness ==
  \E c \in SessionCodes : Deliveries(c) = 1 /\ Answered(c, 404) # {}
\* ---- C2 ----------------------------------------------------------------
\* An exchange that finds its code in the store while other exchanges on the
\* same code are in flight is answered 200, and in the same step the code
\* leaves the store, so that the store every other one will look up lacks
\* it; an exchange that does not find its code is answered 404 and adds no
\* delivery.
C2_Exchange ==
  \A r \in Reqs : ExchangeHandle(r) /\ r.code # <<>> =>
    IF r.code \in DOMAIN sessionStore
    THEN /\ Deliveries(r.code)' = Deliveries(r.code) + 1
         /\ \A o \in InFlight(r.code)' : o.code \notin DOMAIN sessionStore'
    ELSE /\ Deliveries(r.code)' = Deliveries(r.code)
         /\ Answered(r.code, 404)' # {}

\* Only an exchange on the code changes the number of its deliveries.
C2_Others ==
  \A c \in SessionCodes :
    (\A r \in Reqs : ~(ExchangeHandle(r) /\ r.code = c)) => Deliveries(c)' = Deliveries(c)

\* While the code is in the store none of the exchanges on it has been
\* answered 200; once it has been delivered it is gone and was delivered once.
C2_ExactlyOne ==
  \A c \in SessionCodes :
    IF c \in DOMAIN sessionStore THEN Deliveries(c) = 0 ELSE Deliveries(c) \in {0, 1}

\* C2: of any number of GET /auth/exchange requests in flight on the same
\* valid session code, under every order in which their handlers run,
\* exactly one is answered 200 and all the others 404.
C2_ConcurrentExchange ==
  /\ []C2_ExactlyOne
  /\ [][C2_Exchange /\ C2_Others]_vars

\* One exchange on a code was answered 200 while another on the same code is
\* still in flight.
C2_Witness ==
  \E c \in SessionCodes : Deliveries(c) = 1 /\ InFlight(c) # {}

\* ---- C3 ----------------------------------------------------------------
\* The code was stored and left the store without being delivered: the
\* sweep has removed it.
Swept(sessionCode) ==
  /\ sessionCode \in issued
  /\ sessionCode \notin DOMAIN sessionStore
  /\ Deliveries(sessionCode) = 0

\* C3 as stated: the sweep running at time now removes every entry with
\* expires_at <= now, the entry with expires_at = now included.
C3_SweepAtOrBefore ==
  [][Sweep => \A c \in DOMAIN sessionStore :
                sessionStore[c].expires_at <= now => c \notin DOMAIN sessionStore']_vars

C3_SweepStep ==
  Sweep => \A c \in DOMAIN sessionStore :
             /\ sessionStore[c].expires_at < now => c \notin DOMAIN sessionStore'
             /\ sessionStore[c].expires_at = now =>
                  c \in DOMAIN sessionStore' /\ sessionStore'[c] = sessionStore[c]

C3_ExchangeSwept ==
  \A r \in Reqs : ExchangeHandle(r) /\ Swept(r.code) =>
    /\ AnswersWith(r, Err(404, "Invalid or expired session code"))
    /\ Swept(r.code)'

\* C3 (amended): the sweep running at time now removes every entry with
\* expires_at < now and keeps the entry with expires_at = now; an exchange
\* with the code of a swept entry is answered 404 although the code was
\* never consumed.
C3_SweepBefore == [][C3_SweepStep /\ C3_ExchangeSwept]_vars

\* A swept code was asked for and answered 404.
C3_Witness ==
  \E c \in SessionCodes : Swept(c) /\ Answered(c, 404) # {}

\* ---- C4 ----------------------------------------------------------------
\* C4: an exchange with a session code whose entry has expired (the time is
\* past its expires_at) is answered 404 and does not return the bundle.
C4_ExpiredRejected ==
  [][\A r \in Reqs :
       (/\ ExchangeHandle(r)
        /\ r.code \in DOMAIN sessionStore
        /\ now > sessionStore[r.code].expires_at)
       => AnswersWith(r, Err(404, "Invalid or expired session code"))]_vars

\* ---- C5 ----------------------------------------------------------------
C5_Exchange ==
  \A r \in Reqs : ExchangeHandle(r) /\ r.code # <<>> /\ r.code \notin issued =>
    /\ AnswersWith(r, Err(404, "Invalid or expired session code"))
    /\ sessionStore' = sessionStore

\* C5: an exchange with a code that no callback has ever stored is answered
\* 404 and leaves the session store as it was, whatever callbacks, exchanges
\* and sweeps there have been on other codes; the store holds only codes
\* that a callback stored.
C5_UnknownCode ==
  /\ [](DOMAIN sessionStore \subseteq issued)
  /\ [][C5_Exchange]_vars

\* A code that was never stored was answered 404 while another code was in
\* the store.
C5_Witness ==
  \E c \in SessionCodes \ issued : Answered(c, 404) # {} /\ sessionStore # <<>>
\* ---- C6 ----------------------------------------------------------------
\* The callbacks that were redirected with a session code.
Succeeded ==
  { r \in Reqs : /\ r.route = "callback"
                 /\ r.resp # NoResponse
                 /\ \E c \in SessionCodes :
                      r.resp[1].location =
                        (IF r.uri # <<>> THEN r.uri
                         ELSE <<"exp", ":", "/", "/", "127.0.0.1", ":", "19000", "/", "--", "/">>)
                        \o <<"?", "code", "=">> \o c }

\* The callbacks that were redirected with error.
Failed(error) ==
  { r \in Reqs : /\ r.route = "callback"
                 /\ r.resp # NoResponse
                 /\ r.resp[1].location =
                      (IF r.uri # <<>> THEN r.uri
                       ELSE <<"exp", ":", "/", "/", "127.0.0.1", ":", "19000", "/", "--", "/">>)
                      \o <<"?", "error", "=", error>> }

\* The token call of a callback fails: the callback is redirected to
\* {target}?error=authentication_failed and the store is left as it was.
C6_TokenFails ==
  \A r \in Reqs : \A tokenResponse \in TokenResponses(r.code) :
    CallbackTokenDone(r, tokenResponse) /\ ~tokenResponse.ok =>
      /\ AnswersWith(r, RedirectTo(
           (IF r.uri # <<>> THEN r.uri
            ELSE <<"exp", ":", "/", "/", "127.0.0.1", ":", "19000", "/", "--", "/">>)
           \o <<"?", "error", "=", "authentication_failed">>))
      /\ sessionStore' = sessionStore
      /\ issued' = issued

\* The callback's steps before the token call settles leave the store as it was.
C6_Begins ==
  \A code \in AuthCodes, state \in {appUri, <<>>} :
    CallbackDirect(code, state) => sessionStore' = sessionStore /\ issued' = issued

\* As many entries were created as callbacks were redirected with a code.
C6_OnlySuccessStores ==
  Cardinality(issued) = BagCardinality([r \in Succeeded |-> reqs[r]])

\* C6: when the provider's token call fails, the callback redirects to
\* {target}?error=authentication_failed and no step of it changes the session
\* store: no entry is created.
C6_TokenFailure ==
  /\ []C6_OnlySuccessStores
  /\ [][C6_TokenFails /\ C6_Begins]_vars

\* A callback was redirected with authentication_failed while the store
\* held an entry.
C6_Witness ==
  Failed("authentication_failed") # {} /\ sessionStore # <<>>

\* ---- C7 ----------------------------------------------------------------
\* A callback without code is finished in the step it arrives in, without a
\* provider call outstanding, redirected to {state}?error=no_code.
C7_Redirected ==
  \A r \in Reqs : r.route = "callback" /\ r.code = <<>> =>
    /\ r.pc = "done"
    /\ Len(r.resp) = 1
    /\ r.uri # <<>> => r.resp[1] = RedirectTo(r.uri \o <<"?", "error", "=", "no_code">>)

C7_StoreKept ==
  \A state \in {appUri, <<>>} :
    CallbackDirect(<<>>, state) => sessionStore' = sessionStore /\ issued' = issued

\* C7: a callback that arrives without code redirects to
\* {state-supplied target}?error=no_code, calls neither the token nor the
\* profile endpoint, and leaves the session store as it was.
C7_NoCode ==
  /\ []C7_Redirected
  /\ [][C7_StoreKept]_vars

\* A callback without code but with state was redirected while the store
\* held an entry.
C7_Witness ==
  /\ \E r \in Failed("no_code") : r.code = <<>> /\ r.uri # <<>>
  /\ sessionStore # <<>>

\* ---- C8 ----------------------------------------------------------------
\* The location is the provider's authorize URL with the parameters of Phase 1.
IsAuthorizeUrl(location, state) ==
  LET path  == <<"https", ":", "/", "/", "accounts.spotify.com", "/", "authorize">>
      query == SubSeq(location, Len(path) + 2, Len(location))
  IN /\ Len(location) > Len(path)
     /\ SubSeq(location, 1, Len(path) + 1) = path \o <<"?">>
     /\ QueryParam(query, <<"response_type">>) = <<"code">>
     /\ QueryParam(query, <<"client_id">>) = CLIENT_ID
     /\ QueryParam(query, <<"redirect_uri">>) = REDIRECT_URI
     /\ QueryParam(query, <<"scope">>)
          = <<"user-read-private", " ", "user-read-email", " ", "user-top-read">>
     /\ QueryParam(query, <<"state">>) = state

C8_Answered ==
  \A r \in Reqs : r.route = "auth" =>
    /\ r.pc = "done"
    /\ Len(r.resp) = 1
    /\ IF r.uri = <<>>
       THEN r.resp[1] = Err(400, "redirect_uri parameter is required")
       ELSE /\ r.resp[1] = RedirectTo(r.resp[1].location)
            /\ IsAuthorizeUrl(r.resp[1].location, r.uri)

C8_StoreKept ==
  \A uri \in {appUri, <<>>} :
    AuthSpotify(uri) => sessionStore' = sessionStore /\ issued' = issued

\* C8: Phase 1 without redirect_uri answers 400 with a JSON error and no
\* redirect; with a redirect_uri it sends exactly one redirect, to the
\* provider's authorize URL; either way the session store is left as it was.
C8_Phase1 ==
  /\ []C8_Answered
  /\ [][C8_StoreKept]_vars

\* Phase 1 was answered once with 400 and once with a redirect while the
\* store held an entry.
C8_Witness ==
  /\ \E r \in Reqs : r.route = "auth" /\ r.uri = <<>> /\ r.resp[1].status = 400
  /\ \E r \in Reqs : r.route = "auth" /\ r.uri # <<>> /\ r.resp[1].status = 302
  /\ sessionStore # <<>>

\* ---- C9 ----------------------------------------------------------------
C9_Exchange ==
  \A r \in Reqs : ExchangeHandle(r) /\ r.code \notin DOMAIN sessionStore =>
    /\ AnswersWith(r, IF r.code = <<>>
                      THEN Err(400, "code parameter is required")
                      ELSE Err(404, "Invalid or expired session code"))
    /\ sessionStore' = sessionStore

\* C9: an exchange without code is answered 400, one with a code that is
\* not in the store (unknown, consumed or swept) 404, and neither removes an
\* entry from the session store.
C9_MissingOrNotFound == [][C9_Exchange]_vars

\* One exchange was answered 400 and another 404 while the store held an entry.
C9_Witness ==
  /\ Answered(<<>>, 400) # {}
  /\ \E c \in SessionCodes : Answered(c, 404) # {}
  /\ sessionStore # <<>>

\* ---- C10 ---------------------------------------------------------------
\* The authorize URL of Phase 1 carries state = redirect_uri.
C10_StateSent ==
  \A p \in Reqs : p.route = "auth" /\ p.uri # <<>> =>
    QueryParam(QueryOf(p.resp[1].location), <<"state">>) = p.uri

\* The provider's echo of that state reaches Phase 2 as the redirect_uri.
C10_StateEchoed ==
  \A p \in Reqs : \A code \in AuthCodes :
    CallbackFromProvider(p, code) =>
      reqs' = reqs (+) SetToBag({[route |-> "callback", code |-> code, uri |-> p.uri,
                                  pc |-> "token", access_token |-> <<>>,
                                  refresh_token |-> <<>>, resp |-> <<>>]})

\* A successful Phase 2 with state R redirects to R?code={sessionCode}, and
\* sessionCode is then a key of the store, mapped to the bundle just obtained.
C10_Redirected ==
  \A r \in Reqs : \A userResponse \in ProfileResponses(r.access_token) :
    CallbackProfileDone(r, userResponse) /\ userResponse.ok /\ r.uri # <<>> =>
      \E c \in DOMAIN sessionStore' :
        /\ AnswersWith(r, RedirectTo(r.uri \o <<"?", "code", "=">> \o c))
        /\ sessionStore'[c].access_token = r.access_token
        /\ sessionStore'[c].refresh_token = r.refresh_token
        /\ sessionStore'[c].user = userResponse.user

\* C10: state round trip.  For every redirect_uri R of Phase 1 the authorize
\* URL carries state = R; when the provider echoes it with a code that
\* exchanges successfully, Phase 2 redirects to R?code={sessionCode}, where
\* sessionCode is at that moment a key of the session store mapped to the
\* bundle just obtained.
C10_StateRoundTrip ==
  /\ []C10_StateSent
  /\ [][C10_StateEchoed /\ C10_Redirected]_vars

\* Phase 1 was given a redirect_uri with reserved characters, and a callback
\* with that state was redirected to it with the code of a stored entry.
C10_Witness ==
  /\ appUri # AppUri
  /\ \E p \in Reqs : p.route = "auth" /\ p.uri = appUri
  /\ \E r \in Succeeded : \E c \in DOMAIN sessionStore :
       r.resp[1].location = appUri \o <<"?", "code", "=">> \o c
\* ---- C11 ---------------------------------------------------------------
\* The insert of a successful callback adds one key that the store did not
\* hold and keeps every entry the store held.
C11_Insert ==
  \A r \in Reqs : \A userResponse \in ProfileResponses(r.access_token) :
    CallbackProfileDone(r, userResponse) /\ userResponse.ok =>
      /\ \A k \in DOMAIN sessionStore :
           k \in DOMAIN sessionStore' /\ sessionStore'[k] = sessionStore[k]
      /\ Cardinality(DOMAIN sessionStore') = Cardinality(DOMAIN sessionStore) + 1
      /\ \E c \in SessionCodes :
           /\ c \notin DOMAIN sessionStore
           /\ c \in DOMAIN sessionStore'
           /\ AnswersWith(r, RedirectTo(
                (IF r.uri # <<>> THEN r.uri
                 ELSE <<"exp", ":", "/", "/", "127.0.0.1", ":", "19000", "/", "--", "/">>)
                \o <<"?", "code", "=">> \o c))

C12_Waiting ==
  { r \in Reqs : r.route = "callback" /\ r.code # <<>> /\ r.resp = NoResponse }

\* C12: every callback that carries a code eventually sends its redirect,
\* also when the provider's token or profile endpoint never answers.
C12_EventuallyRedirects == (C12_Waiting # {}) ~> (C12_Waiting = {})
\* ---- C13 ---------------------------------------------------------------
\* Outcome (i): both tokens came with the token response, the profile call
\* succeeded, one entry with the three values is stored and the redirect
\* carries its code.
C13_Success ==
  \A r \in Reqs : \A userResponse \in ProfileResponses(r.access_token) :
    CallbackProfileDone(r, userResponse) /\ userResponse.ok =>
      /\ r.access_token # <<>>
      /\ r.refresh_token # <<>>
      /\ \E c \in DOMAIN sessionStore' \ DOMAIN sessionStore :
           /\ sessionStore'[c].access_token = r.access_token
           /\ sessionStore'[c].refresh_token = r.refresh_token
           /\ sessionStore'[c].user = userResponse.user
           /\ AnswersWith(r, RedirectTo(
                (IF r.uri # <<>> THEN r.uri
                 ELSE <<"exp", ":", "/", "/", "127.0.0.1", ":", "19000", "/", "--", "/">>)
                \o <<"?", "code", "=">> \o c))

\* Outcome (ii): a callback whose token call or profile call fails stores
\* nothing and is redirected with error=authentication_failed.
C13_Failure ==
  /\ \A r \in Reqs : \A tokenResponse \in TokenResponses(r.code) :
       CallbackTokenDone(r, tokenResponse) /\ ~tokenResponse.ok =>
         /\ sessionStore' = sessionStore
         /\ AnswersWith(r, RedirectTo(
              (IF r.uri # <<>> THEN r.uri
               ELSE <<"exp", ":", "/", "/", "127.0.0.1", ":", "19000", "/", "--", "/">>)
              \o <<"?", "error", "=", "authentication_failed">>))
  /\ \A r \in Reqs : \A userResponse \in ProfileResponses(r.access_token) :
       CallbackProfileDone(r, userResponse) /\ ~userResponse.ok =>
         /\ sessionStore' = sessionStore
         /\ AnswersWith(r, RedirectTo(
              (IF r.uri # <<>> THEN r.uri
               ELSE <<"exp", ":", "/", "/", "127.0.0.1", ":", "19000", "/", "--", "/">>)
              \o <<"?", "error", "=", "authentication_failed">>))

\* C13: no partial success.  A callback ends either with both tokens
\* received, the profile fetched, one entry with these three values stored
\* and a redirect that carries its code, or with nothing stored and a
\* redirect with error=authentication_failed; a token response that lacks
\* access_token or refresh_token never ends in a stored entry.
C13_NoPartialSuccess == [][C13_Success /\ C13_Failure]_vars

\* The part of C13 that the code keeps: failures store nothing and redirect
\* with authentication_failed.
C13_FailuresOnly == [][C13_Failure]_vars
\* ---- C14 ---------------------------------------------------------------
\* An entry enters the store only in the last step of a callback whose
\* token call and profile call succeeded, under a code not stored before.
C14_Created ==
  \A c \in DOMAIN sessionStore' \ DOMAIN sessionStore :
    \E r \in Reqs : \E userResponse \in ProfileResponses(r.access_token) :
      /\ CallbackProfileDone(r, userResponse)
      /\ userResponse.ok
      /\ r.pc = "profile"
      /\ c \notin issued

\* An entry leaves the store only with the first exchange that delivers it
\* or with a sweep that runs after its expires_at.
C14_Removed ==
  \A c \in DOMAIN sessionStore \ DOMAIN sessionStore' :
    \/ Sweep /\ sessionStore[c].expires_at < now
    \/ \E r \in Reqs :
         /\ ExchangeHandle(r)
         /\ r.code = c
         /\ Deliveries(c) = 0
         /\ AnswersWith(r, Ok200(sessionStore[c]))

\* The store holds no entry whose first sweep after its expires_at lies
\* within the modelled time.
C14_AllGone ==
  \A c \in DOMAIN sessionStore : sessionStore[c].expires_at + SWEEP_INTERVAL > MaxTime

\* C14: lifecycle.  An entry is created only by a successful callback and
\* removed only by the first successful exchange of its code or by a sweep
\* after its expires_at; while the timer keeps firing and time advances,
\* every entry ever created is eventually absent from the store: from some
\* time on the store holds none (of those whose sweep falls within the
\* modelled time), and a session code is never stored twice.
C14_Lifecycle ==
  /\ [][C14_Created /\ C14_Removed]_vars
  /\ <>[]C14_AllGone

\* One entry was removed by the sweep and another by its exchange.
C14_Witness ==
  \E c, d \in SessionCodes : Swept(c) /\ Deliveries(d) = 1
\* ---- C15 ---------------------------------------------------------------
\* A sweep removes whole entries and touches nothing else: what it leaves in
\* the store is as it was, and no request is answered by it.
C15_Sweep ==
  Sweep =>
    /\ \A c \in DOMAIN sessionStore' :
         c \in DOMAIN sessionStore /\ sessionStore'[c] = sessionStore[c]
    /\ reqs' = reqs

\* An exchange, whether it runs before or after the sweep, sees the entry
\* whole or not at all: 200 with the three values of the entry, or 404.
C15_Exchange ==
  \A r \in Reqs : ExchangeHandle(r) /\ r.code # <<>> =>
    \/ /\ r.code \in DOMAIN sessionStore
       /\ AnswersWith(r, [status |-> 200, location |-> <<>>, error |-> "",
                          access_token |-> sessionStore[r.code].access_token,
                          refresh_token |-> sessionStore[r.code].refresh_token,
                          user |-> sessionStore[r.code].user])
    \/ /\ r.code \notin DOMAIN sessionStore
       /\ AnswersWith(r, Err(404, "Invalid or expired session code"))

\* Once a code has left the store, no step delivers it.
C15_GoneStaysGone ==
  \A c \in issued \ DOMAIN sessionStore :
    c \notin DOMAIN sessionStore' /\ Deliveries(c)' = Deliveries(c)

\* C15: under every interleaving of a sweep and an exchange on the same
\* entry, the exchange returns the complete bundle as stored with 200, or
\* 404; it never returns a partial bundle, and an entry is never delivered
\* after the sweep has removed it.
C15_SweepExchange == [][C15_Sweep /\ C15_Exchange /\ C15_GoneStaysGone]_vars

\* The race: an expired entry is in the store, the sweep is due and an
\* exchange on the entry's code waits for its handler; either may run first.
C15_Witness ==
  /\ now >= nextSweep
  /\ \E c \in DOMAIN sessionStore :
       sessionStore[c].expires_at < now /\ InFlight(c) # {}
\* ---- C16 ---------------------------------------------------------------
\* Where the redirect of callback r has to go.
C16_Target(r) ==
  IF r.uri # <<>> THEN r.uri
  ELSE <<"exp", ":", "/", "/", "127.0.0.1", ":", "19000", "/", "--", "/">>

\* The queries the redirect of callback r may carry: no_code when the
\* callback has no code, else authentication_failed or a session code.
C16_Queries(r) ==
  IF r.code = <<>>
  THEN { <<"?", "error", "=", "no_code">> }
  ELSE { <<"?", "error", "=", "authentication_failed">> }
       \cup { <<"?", "code", "=">> \o c : c \in issued }

\* C16: in every branch of the callback (no code, upstream failure, success)
\* the redirect goes to the target given in state when state is present, and
\* to exp://127.0.0.1:19000/--/ with the same query when state is missing.
C16_StateOrDefault ==
  \A r \in Reqs : r.route = "callback" /\ r.resp # NoResponse =>
    \E q \in C16_Queries(r) : r.resp[1] = RedirectTo(C16_Target(r) \o q)

\* Three callbacks without state have ended, one in each branch.
C16_Witness ==
  /\ \E r \in Failed("no_code") : r.uri = <<>>
  /\ \E r \in Failed("authentication_failed") : r.uri = <<>>
  /\ \E r \in Succeeded : r.uri = <<>>
\* ---- C17 ---------------------------------------------------------------
\* The callbacks with a code that ended otherwise than with a session code.
C17_Failures ==
  { r \in Reqs : r.route = "callback" /\ r.code # <<>> /\ r.resp # NoResponse } \ Succeeded

\* Whatever the upstream error, and whichever of the two calls failed, the
\* failing step answers with the same redirect for the same state.
C17_FailureStep ==
  /\ \A r \in Reqs : \A e \in {"invalid_grant", "ECONNRESET"} :
       CallbackTokenDone(r, [ok |-> FALSE, access_token |-> <<>>,
                             refresh_token |-> <<>>, error |-> e]) =>
         AnswersWith(r, RedirectTo(
           (IF r.uri # <<>> THEN r.uri
            ELSE <<"exp", ":", "/", "/", "127.0.0.1", ":", "19000", "/", "--", "/">>)
           \o <<"?", "error", "=", "authentication_failed">>))
  /\ \A r \in Reqs : \A e \in {"invalid_token", "ECONNRESET"} :
       CallbackProfileDone(r, [ok |-> FALSE, user |-> <<>>, error |-> e]) =>
         AnswersWith(r, RedirectTo(
           (IF r.uri # <<>> THEN r.uri
            ELSE <<"exp", ":", "/", "/", "127.0.0.1", ":", "19000", "/", "--", "/">>)
           \o <<"?", "error", "=", "authentication_failed">>))

\* Any two failed callbacks with the same state got the same response.
C17_SameRedirect ==
  \A r1, r2 \in C17_Failures : r1.uri = r2.uri => r1.resp = r2.resp

\* C17: two callbacks with the same state that fail with different upstream
\* failures (different error bodies, different calls failing) are answered
\* with the identical redirect {target}?error=authentication_failed: the
\* response does not tell the failures apart.
C17_FailuresIndistinguishable ==
  /\ []C17_SameRedirect
  /\ [][C17_FailureStep]_vars

\* Two callbacks with the same state and different authorization codes have
\* both failed.
C17_Witness ==
  \E r1, r2 \in C17_Failures : r1.uri = r2.uri /\ r1.code # r2.code
\* ---- C18 ---------------------------------------------------------------
\* The callbacks that were redirected with session code c.
C18_Owners(c) ==
  { r \in Reqs :
      /\ r.route = "callback"
      /\ r.resp # NoResponse
      /\ r.resp[1].location =
           (IF r.uri # <<>> THEN r.uri
            ELSE <<"exp", ":", "/", "/", "127.0.0.1", ":", "19000", "/", "--", "/">>)
           \o <<"?", "code", "=">> \o c }

\* The bundle is made of what the provider gave for authorization code code.
C18_BundleOf(bundle, code) ==
  /\ bundle.access_token = <<"AT">> \o code
  /\ bundle.refresh_token \in { <<"RT">> \o code, <<>> }
  /\ bundle.user = <<"user">> \o code

\* Every session code has one owner; the entry under it, and the bundle an
\* exchange delivered for it, are made of what the provider gave for the
\* owner's authorization code.
C18_OwnBundle ==
  \A c \in issued :
    /\ Cardinality(C18_Owners(c)) = 1
    /\ \A r \in C18_Owners(c) :
         /\ reqs[r] = 1
         /\ c \in DOMAIN sessionStore => C18_BundleOf(sessionStore[c], r.code)
         /\ \A x \in Answered(c, 200) : C18_BundleOf(x.resp[1], r.code)

\* A callback between its two calls holds the tokens of its own code.
C18_OwnLocals ==
  \A r \in Reqs : r.route = "callback" /\ r.pc = "profile" =>
    /\ r.access_token \in { <<"AT">> \o r.code, <<>> }
    /\ r.refresh_token \in { <<"RT">> \o r.code, <<>> }

\* C18: session isolation.  With several callbacks in flight and their
\* provider calls settling in any order, each minted session code maps to
\* the tokens and user obtained with the authorization code of the callback
\* that minted it, never to those of another callback.
C18_Isolation == C18_OwnBundle /\ C18_OwnLocals

\* Two callbacks with different authorization codes have both stored their
\* bundle.
C18_Witness ==
  \E c, d \in DOMAIN sessionStore : sessionStore[c].user # sessionStore[d].user
\* ---- C19 ---------------------------------------------------------------
\* A sweep keeps, unaltered, every entry whose expires_at lies ahead.
C19_SweepKeeps ==
  Sweep => \A c \in DOMAIN sessionStore :
             sessionStore[c].expires_at > now =>
               c \in DOMAIN sessionStore' /\ sessionStore'[c] = sessionStore[c]

\* No step removes an entry whose expires_at lies ahead, other than the
\* exchange that delivers it; its expires_at does not change and time does
\* not run backwards.
C19_OnlyConsumed ==
  /\ now' >= now
  /\ \A c \in DOMAIN sessionStore :
       sessionStore[c].expires_at > now =>
         \/ c \in DOMAIN sessionStore' /\ sessionStore'[c] = sessionStore[c]
         \/ Deliveries(c) = 0 /\ Deliveries(c)' = 1

\* An exchange with a code that is in the store before its expires_at is
\* answered 200 with the bundle.
C19_Exchange ==
  \A r \in Reqs :
    (/\ ExchangeHandle(r)
     /\ r.code \in DOMAIN sessionStore
     /\ now < sessionStore[r.code].expires_at)
    => AnswersWith(r, Ok200(sessionStore[r.code]))

\* C19: the sweep never removes an unexpired entry: an entry with
\* expires_at > now survives every sweep.  Hence a session code that has not
\* been consumed stays in the store until its expires_at, and an exchange
\* with it before then is answered 200 with its bundle.
C19_UnexpiredSurvives == [][C19_SweepKeeps /\ C19_OnlyConsumed /\ C19_Exchange]_vars

\* An entry created before the last sweep is in the store, its expires_at
\* still ahead, and an exchange with its code waits for its handler.
C19_Witness ==
  \E c \in DOMAIN sessionStore :
    /\ sessionStore[c].expires_at - TTL < nextSweep - SWEEP_INTERVAL
    /\ sessionStore[c].expires_at > now
    /\ InFlight(c) # {}
\* ---- C20 ---------------------------------------------------------------
\* The milliseconds since the entry was created: it was stored with
\* expires_at = creation time + lifetime.
C20_Age(data) == (now - (data.expires_at - TTL)) * MsPerTick

\* C20: with a lifetime of 5 minutes and a sweep exactly every 5 minutes, no
\* entry is in the store later than 10 minutes (lifetime plus one interval)
\* after its creation, so no session code can be exchanged beyond that.
C20_BoundedLifetime ==
  \A c \in DOMAIN sessionStore : C20_Age(sessionStore[c]) <= 10 * 60 * 1000

\* An entry is in the store 10 minutes after its creation: the sweep that
\* removes it is due.
C20_Witness ==
  \E c \in DOMAIN sessionStore : C20_Age(sessionStore[c]) = 10 * 60 * 1000
====
